---- MODULE Spec2Model ----
(***************************************************************************)
(* Model of src-tauri/src/main.rs of dao-copilot: the host process of the  *)
(* desktop shell.  One main thread runs setup and then the event loop      *)
(* (tray events, the global shortcut); the async commands of the invoke    *)
(* handler run as tasks beside it and reach the window only through        *)
(* single platform calls (is_visible, hide, show, set_focus), each of      *)
(* which the platform may refuse.                                          *)
(***************************************************************************)
EXTENDS Integers, Sequences, FiniteSets, TLC

VARIABLES
    mainPc,             \* position of the main thread: setup steps, "run", "exited", "panicked"
    exitCode,           \* process exit status, -1 while the process lives
    hasMainWindow,      \* the configuration declares a window labelled "main"
    shortcutRegistered, \* the global shortcut binding exists
    window,             \* the main window as the platform reports it
    conversations,      \* AppState.conversations
    stdout,             \* the last line printed to standard output
    task,               \* the in-flight invocations of the commands
    lastEvent,          \* the last step of setup or event handled on the main thread
    nOps,               \* number of commands invoked and events handled
    hist                \* history: what a reader of the claims needs to remember

vars == <<mainPc, exitCode, hasMainWindow, shortcutRegistered, window,
          conversations, stdout, task, lastEvent, nOps, hist>>

----------------------------------------------------------------------------
(* Bounds and input sets *)

MaxOps == 3

Tasks == {1, 2}
Ids == {"a", "b"}
Contents == {"x", "y"}
Names == {"dao"}
MenuIds == {"quit", "show", "hide", "about"}
OtherTrayEvents == {"RightClick", "DoubleClick"}

----------------------------------------------------------------------------
(* HashMap<String, String> as a set of <<key, value>> pairs *)

EmptyMap == {}

MapKeys(m) == {p[1] : p \in m}

MapInsert(m, k, v) == {p \in m : p[1] # k} \cup {<<k, v>>}

----------------------------------------------------------------------------
(* The platform's window calls; ok = FALSE is the platform refusing *)

\* mutant of IsVisible: `.unwrap_or(true)`, a failed query read as visible
IsVisible_OrTrue(w, ok) == IF ok THEN w.visible ELSE TRUE

IsVisible(w, ok) == IF ok THEN w.visible ELSE FALSE

Hide(w, ok) == IF ok THEN [w EXCEPT !.visible = FALSE, !.focused = FALSE] ELSE w

Show(w, ok) == IF ok THEN [w EXCEPT !.visible = TRUE] ELSE w

SetFocus(w, ok) == IF ok THEN [w EXCEPT !.focused = TRUE] ELSE w

SetTitle(w, ok) == IF ok THEN [w EXCEPT !.title = "DAO Copilot"] ELSE w

----------------------------------------------------------------------------
(* Handlers of the main thread.  Each yields the window after the handler, *)
(* the platform calls it made (<<name, ok>>), and how the handler left the *)
(* process: "none" (returns), "panic" (an unwrap on Err/None), "exit0".    *)

Outcome(w, calls, exit) == [w |-> w, calls |-> calls, exit |-> exit]

\* mutant of LeftClick: the visible branch forgotten, the click always shows
LeftClick_AlwaysShow(has, w, okq, ok1, ok2) ==
    IF ~has THEN Outcome(w, <<>>, "panic")
    ELSE IF ~ok1
    THEN Outcome(w, <<<<"is_visible", okq>>, <<"show", FALSE>>>>, "panic")
    ELSE Outcome(SetFocus(Show(w, TRUE), ok2),
                 <<<<"is_visible", okq>>, <<"show", TRUE>>, <<"set_focus", ok2>>>>,
                 IF ok2 THEN "none" ELSE "panic")

\* SystemTrayEvent::LeftClick arm
LeftClick(has, w, okq, ok1, ok2) ==
    IF ~has THEN Outcome(w, <<>>, "panic")
    ELSE IF IsVisible(w, okq)
    THEN Outcome(Hide(w, ok1), <<<<"is_visible", okq>>, <<"hide", ok1>>>>,
                 IF ok1 THEN "none" ELSE "panic")
    ELSE IF ~ok1
    THEN Outcome(w, <<<<"is_visible", okq>>, <<"show", FALSE>>>>, "panic")
    ELSE Outcome(SetFocus(Show(w, TRUE), ok2),
                 <<<<"is_visible", okq>>, <<"show", TRUE>>, <<"set_focus", ok2>>>>,
                 IF ok2 THEN "none" ELSE "panic")

\* mutant of QuitItem: "quit" falls through to the arm that ignores the click
QuitItem_Ignored(w) == Outcome(w, <<>>, "none")

\* the "quit" arm: std::process::exit(0)
QuitItem(w) == Outcome(w, <<>>, "exit0")

\* the "show" arm
ShowItem(has, w, ok1, ok2) ==
    IF ~has THEN Outcome(w, <<>>, "panic")
    ELSE IF ~ok1 THEN Outcome(w, <<<<"show", FALSE>>>>, "panic")
    ELSE Outcome(SetFocus(Show(w, TRUE), ok2),
                 <<<<"show", TRUE>>, <<"set_focus", ok2>>>>,
                 IF ok2 THEN "none" ELSE "panic")

\* mutant of HideItem: the item toggles as the left-click does
HideItem_Toggle(has, w, ok1) ==
    IF ~has THEN Outcome(w, <<>>, "panic")
    ELSE IF w.visible
    THEN Outcome(Hide(w, ok1), <<<<"hide", ok1>>>>, IF ok1 THEN "none" ELSE "panic")
    ELSE Outcome(SetFocus(Show(w, ok1), ok1), <<<<"show", ok1>>, <<"set_focus", ok1>>>>,
                 IF ok1 THEN "none" ELSE "panic")

\* the "hide" arm
HideItem(has, w, ok1) ==
    IF ~has THEN Outcome(w, <<>>, "panic")
    ELSE Outcome(Hide(w, ok1), <<<<"hide", ok1>>>>, IF ok1 THEN "none" ELSE "panic")

\* SystemTrayEvent::MenuItemClick arm: match id.as_str()
MenuItemClick(has, w, id, ok1, ok2) ==
    CASE id = "quit" -> QuitItem(w)
      [] id = "show" -> ShowItem(has, w, ok1, ok2)
      [] id = "hide" -> HideItem(has, w, ok1)
      [] OTHER -> Outcome(w, <<>>, "none")

\* the closure registered for "Cmd+Shift+Space"
ShortcutClosure(has, w, okq, ok1, ok2) ==
    IF ~has THEN Outcome(w, <<>>, "none")
    ELSE IF IsVisible(w, okq)
    THEN Outcome(Hide(w, ok1), <<<<"is_visible", okq>>, <<"hide", ok1>>>>,
                 IF ok1 THEN "none" ELSE "panic")
    ELSE IF ~ok1
    THEN Outcome(w, <<<<"is_visible", okq>>, <<"show", FALSE>>>>, "panic")
    ELSE Outcome(SetFocus(Show(w, TRUE), ok2),
                 <<<<"is_visible", okq>>, <<"show", TRUE>>, <<"set_focus", ok2>>>>,
                 IF ok2 THEN "none" ELSE "panic")

\* mutant of handle_system_tray_event: every click toggles, not the left one only
handle_system_tray_event_AnyClick(has, w, ev, ok) ==
    CASE ev.variant = "MenuItemClick" -> MenuItemClick(has, w, ev.id, ok[1], ok[2])
      [] OTHER -> LeftClick(has, w, ok[1], ok[2], ok[3])

\* fn handle_system_tray_event: the outer match
handle_system_tray_event(has, w, ev, ok) ==
    CASE ev.variant = "LeftClick" -> LeftClick(has, w, ok[1], ok[2], ok[3])
      [] ev.variant = "MenuItemClick" -> MenuItemClick(has, w, ev.id, ok[1], ok[2])
      [] OTHER -> Outcome(w, <<>>, "none")

----------------------------------------------------------------------------
(* The commands of the invoke handler.  A task is one invocation: the      *)
(* command, its position, its arguments, the platform calls made so far,   *)
(* and the Result it returned.  `expect` is history: what the saves that   *)
(* had returned Ok when a load was invoked (and were not saved over before *)
(* the load ran) had stored, and which of them overwrote or overlapped;    *)
(* for a save, the records stored when it was invoked.  expect.snaps are   *)
(* the contents the saves that returned Ok gave the store at each instant  *)
(* between a load's invocation and its response.  `from` and `to`          *)
(* are history too: the window a toggle read, and the window it returned   *)
(* on.                                                                     *)

NoExpect == [saved |-> {}, overwritten |-> {}, concurrent |-> {}, racy |-> {},
             snaps |-> {}]

NoWindow == [visible |-> FALSE, focused |-> FALSE, title |-> ""]

IdleTask == [cmd |-> "none", pc |-> "idle", arg |-> <<>>, calls |-> <<>>,
             result |-> "none", value |-> <<>>, expect |-> NoExpect,
             from |-> NoWindow, to |-> NoWindow]

Return(tk, result, value) ==
    [tk EXCEPT !.pc = "done", !.result = result, !.value = value]

\* what a command step yields: the task, the window, the store, the line
\* printed, and how the step left the process (as for the handlers above)
Step(tk, w, store, line) ==
    [t |-> tk, w |-> w, store |-> store, line |-> line, exit |-> "none"]

NoLine == <<>>

println(out, line) == IF line = NoLine THEN out ELSE line

\* mutant of greet: the greeting is printed as well, as save_conversation prints
greet_Logged(tk, w, store) ==
    Step(Return(tk, "Ok", <<"Hello, ", tk.arg[1],
                            "! Welcome to DAO Copilot powered by Tauri.">>),
         w, store, <<"Hello, ", tk.arg[1]>>)

greet(tk, w, store) ==
    Step(Return(tk, "Ok", <<"Hello, ", tk.arg[1],
                            "! Welcome to DAO Copilot powered by Tauri.">>),
         w, store, NoLine)

get_platform_info(tk, w, store) ==
    Step(Return(tk, "Ok", [platform |-> "OS", arch |-> "ARCH",
                           version |-> "CARGO_PKG_VERSION", is_tauri |-> TRUE]),
         w, store, NoLine)

save_conversation(tk, w, store) ==
    Step(Return(tk, "Ok", <<>>), w, store,
         <<"Saving conversation ", tk.arg[1], ": ", tk.arg[2]>>)

load_conversations(tk, w, store) ==
    Step(Return(tk, "Ok", EmptyMap), w, store, NoLine)

\* mutant of MapErr: `.unwrap()` as in the tray handler, the refusal panics
MapErr_Unwrap(tk, w, store) ==
    [Step(tk, w, store, NoLine) EXCEPT !.exit = "panic"]

\* `.map_err(|e| e.to_string())?`: the platform's error returned to the caller
MapErr(tk, w, store) ==
    Step(Return(tk, "Err", "e.to_string()"), w, store, NoLine)

\* one platform call of toggle_window_visibility per step
toggle_window_visibility(tk, w, store, ok) ==
    CASE tk.pc = "is_visible" ->
            Step([tk EXCEPT !.pc = IF IsVisible(w, ok) THEN "hide" ELSE "show",
                            !.calls = Append(@, <<"is_visible", ok>>)],
                 w, store, NoLine)
      [] tk.pc = "hide" ->
            LET tk1 == [tk EXCEPT !.calls = Append(@, <<"hide", ok>>)]
            IN  IF ok THEN Step(Return(tk1, "Ok", <<>>), Hide(w, TRUE), store, NoLine)
                ELSE MapErr(tk1, w, store)
      [] tk.pc = "show" ->
            LET tk1 == [tk EXCEPT !.calls = Append(@, <<"show", ok>>)]
            IN  IF ok THEN Step([tk1 EXCEPT !.pc = "set_focus"], Show(w, TRUE), store, NoLine)
                ELSE MapErr(tk1, w, store)
      [] tk.pc = "set_focus" ->
            LET tk1 == [tk EXCEPT !.calls = Append(@, <<"set_focus", ok>>)]
            IN  IF ok THEN Step(Return(tk1, "Ok", <<>>), SetFocus(w, TRUE), store, NoLine)
                ELSE MapErr(tk1, w, store)

\* tauri::generate_handler!: the registered commands and where each starts
Commands == {"greet", "get_platform_info", "save_conversation",
             "load_conversations", "toggle_window_visibility"}

StoreCommands == {"save_conversation", "load_conversations"}

FirstPc(cmd) == IF cmd = "toggle_window_visibility" THEN "is_visible" ELSE "body"

Args(cmd) ==
    CASE cmd = "greet" -> {<<n>> : n \in Names}
      [] cmd = "save_conversation" -> Ids \X Contents
      [] OTHER -> {<<>>}

\* mutant of RegisterShortcut: `.unwrap()`, a failed registration panics
RegisterShortcut_Unwrap(w, ok) ==
    [pc |-> IF ok THEN "set_title" ELSE "panicked", w |-> w, registered |-> ok,
     line |-> NoLine, calls |-> <<<<"register", ok>>>>]

\* global_shortcut_manager().register(..).unwrap_or_else(|e| println!(..))
RegisterShortcut(w, ok) ==
    [pc |-> "set_title", w |-> w, registered |-> ok,
     line |-> IF ok THEN NoLine ELSE <<"Failed to register global shortcut: ", "e">>,
     calls |-> <<<<"register", ok>>>>]

\* mutant of GetMainWindow: the handle is not unwrapped, setup goes on without it
GetMainWindow_Unchecked(has, w) ==
    [pc |-> "register", w |-> w, registered |-> FALSE, line |-> NoLine,
     calls |-> <<<<"get_window", has>>>>]

\* let window = app.get_window("main").unwrap()
GetMainWindow(has, w) ==
    [pc |-> IF has THEN "register" ELSE "panicked", w |-> w,
     registered |-> FALSE, line |-> NoLine, calls |-> <<<<"get_window", has>>>>]

\* the setup closure of main, one step per fallible call
setup(pc, has, w, reg, ok) ==
    CASE pc = "get_window" -> GetMainWindow(has, w)
      [] pc = "register" -> RegisterShortcut(w, ok)
      [] pc = "set_title" ->
            [pc |-> IF ok THEN "run" ELSE "panicked", w |-> SetTitle(w, ok),
             registered |-> reg, line |-> NoLine, calls |-> <<<<"set_title", ok>>>>]

----------------------------------------------------------------------------
(* History.  hist remembers what the program itself does not keep:         *)
(*   n           toggles completed (any trigger)                           *)
(*   v0          the window's visibility when the event loop started       *)
(*   onlyOk      the window was touched by toggles only, and every show,   *)
(*               hide and set_focus of them succeeded                      *)
(*   queryOk     every is_visible of a toggle succeeded                    *)
(*   sequential  no toggle started while another was in progress           *)
(*   saved       the records of the saves that returned Ok, latest per id  *)
(*   overwritten ids saved by a save invoked after one of the same id had  *)
(*               returned                                                  *)
(*   concurrent  ids of saves that were in flight together (distinct ids)  *)
(*   racy        ids of saves that were in flight together (the same id)   *)
(*   register    how the registration of the shortcut ended                *)
(* lastEvent remembers the last handler of the main thread: the event, the *)
(* platform calls it made, the window before and after it, how it left the *)
(* process, and whether a command had already returned Err when it ran.    *)

ToggleTrigger(kind) == kind \in {"LeftClick", "Shortcut"}

InToggle(tk) == tk.cmd = "toggle_window_visibility" /\ tk.pc \notin {"idle", "done"}

ToggleInFlight == \E t \in Tasks : InToggle(task[t])

CallsOk(calls, names) ==
    \A i \in 1..Len(calls) : calls[i][1] \in names => calls[i][2]

ActionNames == {"show", "hide", "set_focus"}

HistToggleDone(h, calls, failed) ==
    [h EXCEPT !.n = @ + 1,
              !.onlyOk = @ /\ ~failed /\ CallsOk(calls, ActionNames),
              !.queryOk = @ /\ CallsOk(calls, {"is_visible"})]

HistEvent(h, kind, out) ==
    IF ToggleTrigger(kind)
    THEN [HistToggleDone(h, out.calls, out.exit # "none")
            EXCEPT !.sequential = @ /\ ~ToggleInFlight]
    ELSE IF out.calls # <<>> THEN [h EXCEPT !.onlyOk = FALSE]
    ELSE h

HistInvoke(h, t, cmd, arg) ==
    CASE cmd = "toggle_window_visibility" ->
            [h EXCEPT !.sequential = @ /\ ~ToggleInFlight]
      [] cmd = "save_conversation" ->
            LET inFlight == {task[u].arg[1] : u \in
                               {u \in Tasks : /\ task[u].cmd = "save_conversation"
                                              /\ task[u].pc = "body"}}
                others == inFlight \ {arg[1]}
            IN  [h EXCEPT !.concurrent = IF others = {} THEN @
                                         ELSE @ \cup others \cup {arg[1]},
                          !.racy = @ \cup (inFlight \cap {arg[1]})]
      [] OTHER -> h

Expect(h) == [saved |-> h.saved, overwritten |-> h.overwritten,
              concurrent |-> h.concurrent, racy |-> h.racy, snaps |-> {h.saved}]

\* every load in flight has now been in flight at an instant with h.saved stored
Witnessed(tasks, h) ==
    [t \in Tasks |->
        IF tasks[t].cmd = "load_conversations" /\ tasks[t].pc = "body"
        THEN [tasks[t] EXCEPT !.expect.snaps = @ \cup {h.saved}]
        ELSE tasks[t]]

HistSaved(h, tk) ==
    IF tk.result # "Ok" THEN h
    ELSE [h EXCEPT !.saved = MapInsert(@, tk.arg[1], tk.arg[2]),
                   !.overwritten = IF tk.arg[1] \in MapKeys(tk.expect.saved)
                                   THEN @ \cup {tk.arg[1]} ELSE @]

----------------------------------------------------------------------------
(* The state machine *)

ErrReturned == \E t \in Tasks : task[t].pc = "done" /\ task[t].result = "Err"

Handled(kind, id, calls, before, after, exit) ==
    [kind |-> kind, id |-> id, calls |-> calls, before |-> before, after |-> after,
     exit |-> exit, store |-> conversations, afterErr |-> ErrReturned]

Init ==
    /\ mainPc = "get_window"
    /\ exitCode = -1
    /\ hasMainWindow \in BOOLEAN
    /\ shortcutRegistered = FALSE
    /\ \E v \in BOOLEAN :
          /\ window = [visible |-> hasMainWindow /\ v, focused |-> FALSE, title |-> "app"]
          /\ hist = [n |-> 0, v0 |-> hasMainWindow /\ v, onlyOk |-> TRUE,
                     queryOk |-> TRUE, sequential |-> TRUE, saved |-> EmptyMap,
                     overwritten |-> {}, concurrent |-> {}, racy |-> {},
                     register |-> "none"]
    /\ conversations = EmptyMap
    /\ stdout = NoLine
    /\ task = [t \in Tasks |-> IdleTask]
    /\ lastEvent = Handled("none", "", <<>>, window, window, "none")
    /\ nOps = 0

\* how a handler leaves the process (101: the exit status of a Rust process
\* whose main thread panicked)
Leave(exit) ==
    CASE exit = "panic" -> /\ mainPc' = "panicked"
                           /\ exitCode' = 101
      [] exit = "exit0" -> /\ mainPc' = "exited"
                           /\ exitCode' = 0
      [] OTHER -> UNCHANGED <<mainPc, exitCode>>

\* .setup(|app| ...) run by the main thread before the event loop
Setup ==
    /\ mainPc \in {"get_window", "register", "set_title"}
    /\ \E ok \in BOOLEAN :
         LET r == setup(mainPc, hasMainWindow, window, shortcutRegistered, ok)
         IN  /\ mainPc' = r.pc
             /\ exitCode' = IF r.pc = "panicked" THEN 101 ELSE exitCode
             /\ window' = r.w
             /\ shortcutRegistered' = r.registered
             /\ stdout' = println(stdout, r.line)
             /\ lastEvent' = Handled("Setup", mainPc, r.calls, window, r.w,
                                     IF r.pc = "panicked" THEN "panic" ELSE "none")
             /\ hist' = IF mainPc = "register"
                        THEN [hist EXCEPT !.register = IF r.registered THEN "ok" ELSE "failed"]
                        ELSE hist
    /\ UNCHANGED <<hasMainWindow, conversations, task, nOps>>

TrayEvents ==
    {[variant |-> "LeftClick", id |-> ""]}
      \cup {[variant |-> "MenuItemClick", id |-> i] : i \in MenuIds}
      \cup {[variant |-> v, id |-> ""] : v \in OtherTrayEvents}

\* .on_system_tray_event(handle_system_tray_event): one event, run to completion
TrayEvent ==
    /\ mainPc = "run"
    /\ nOps < MaxOps
    /\ \E ev \in TrayEvents, ok \in BOOLEAN \X BOOLEAN \X BOOLEAN :
         LET out == handle_system_tray_event(hasMainWindow, window, ev, ok)
         IN  /\ window' = out.w
             /\ Leave(out.exit)
             /\ lastEvent' = Handled(ev.variant, ev.id, out.calls, window, out.w, out.exit)
             /\ hist' = HistEvent(hist, ev.variant, out)
    /\ nOps' = nOps + 1
    /\ UNCHANGED <<hasMainWindow, shortcutRegistered, conversations, stdout, task>>

\* the registered shortcut fires: its closure runs to completion
Shortcut ==
    /\ mainPc = "run"
    /\ shortcutRegistered
    /\ nOps < MaxOps
    /\ \E okq \in BOOLEAN, ok1 \in BOOLEAN, ok2 \in BOOLEAN :
         LET out == ShortcutClosure(hasMainWindow, window, okq, ok1, ok2)
         IN  /\ window' = out.w
             /\ Leave(out.exit)
             /\ lastEvent' = Handled("Shortcut", "", out.calls, window, out.w, out.exit)
             /\ hist' = HistEvent(hist, "Shortcut", out)
    /\ nOps' = nOps + 1
    /\ UNCHANGED <<hasMainWindow, shortcutRegistered, conversations, stdout, task>>

\* a slot is free once its task has returned; it shows the response until reused
Free(tk) == tk.pc \in {"idle", "done"}

\* the frontend invokes a command: a new task (in the first free slot: which
\* slot holds a task is immaterial)
Invoke ==
    /\ mainPc = "run"
    /\ nOps < MaxOps
    /\ \E t \in Tasks, cmd \in Commands :
         /\ Free(task[t])
         /\ \A u \in Tasks : Free(task[u]) => t <= u
         /\ \E arg \in Args(cmd) :
              /\ task' = [task EXCEPT ![t] =
                            [IdleTask EXCEPT !.cmd = cmd, !.pc = FirstPc(cmd), !.arg = arg,
                                             !.expect = IF cmd \in StoreCommands
                                                        THEN Expect(hist) ELSE NoExpect]]
              /\ hist' = HistInvoke(hist, t, cmd, arg)
    /\ nOps' = nOps + 1
    /\ UNCHANGED <<mainPc, exitCode, hasMainWindow, shortcutRegistered, window,
                   conversations, stdout, lastEvent>>

\* the effect of a command step on the shared state
Apply(t, r, h) ==
    /\ task' = [Witnessed(task, h) EXCEPT ![t] = r.t]
    /\ window' = r.w
    /\ conversations' = r.store
    /\ stdout' = println(stdout, r.line)
    /\ hist' = h
    /\ Leave(r.exit)
    /\ UNCHANGED <<hasMainWindow, shortcutRegistered, lastEvent, nOps>>

Runs(t, cmd) == mainPc = "run" /\ task[t].cmd = cmd /\ task[t].pc \notin {"idle", "done"}

Greet ==
    \E t \in Tasks :
        /\ Runs(t, "greet")
        /\ Apply(t, greet(task[t], window, conversations), hist)

GetPlatformInfo ==
    \E t \in Tasks :
        /\ Runs(t, "get_platform_info")
        /\ Apply(t, get_platform_info(task[t], window, conversations), hist)

SaveConversation ==
    \E t \in Tasks :
        /\ Runs(t, "save_conversation")
        /\ LET r == save_conversation(task[t], window, conversations)
           IN  Apply(t, r, HistSaved(hist, r.t))

LoadConversations ==
    \E t \in Tasks :
        /\ Runs(t, "load_conversations")
        /\ LET r == load_conversations(task[t], window, conversations)
               still == [r.t EXCEPT !.expect.saved = @ \cap hist.saved]
           IN  Apply(t, [r EXCEPT !.t = still], hist)

ToggleWindowVisibility ==
    \E t \in Tasks, ok \in BOOLEAN :
        /\ Runs(t, "toggle_window_visibility")
        /\ LET r == toggle_window_visibility(task[t], window, conversations, ok)
               seen == [r.t EXCEPT !.from = IF task[t].pc = "is_visible" THEN window ELSE @,
                                   !.to = IF r.t.pc = "done" THEN r.w ELSE @]
           IN  Apply(t, [r EXCEPT !.t = seen],
                     IF r.t.pc = "done"
                     THEN HistToggleDone(hist, r.t.calls, r.t.result # "Ok")
                     ELSE hist)

Next ==
    \/ Setup
    \/ TrayEvent
    \/ Shortcut
    \/ Invoke
    \/ Greet
    \/ GetPlatformInfo
    \/ SaveConversation
    \/ LoadConversations
    \/ ToggleWindowVisibility

Spec == Init /\ [][Next]_vars

----------------------------------------------------------------------------
(* Properties *)

Odd(n) == n % 2 = 1

Quiet == ~ToggleInFlight

Loaded(t) == task[t].cmd = "load_conversations" /\ task[t].pc = "done"

ToggleDone(t) == task[t].cmd = "toggle_window_visibility" /\ task[t].pc = "done"

\* C1, as claimed: from a hidden window, after N toggles handled one after
\* another, every show, hide and set_focus succeeding, the window is visible
\* iff N is odd.
C1_AsClaimed ==
    (~hist.v0 /\ hist.onlyOk /\ hist.sequential /\ Quiet)
        => (window.visible <=> Odd(hist.n))

\* C1, amended: the same, when every is_visible query of the toggles succeeded
\* as well.
C1_ToggleParity ==
    (~hist.v0 /\ hist.onlyOk /\ hist.queryOk /\ hist.sequential /\ Quiet)
        => (window.visible <=> Odd(hist.n))

\* three toggles in turn, the last by a main-thread trigger, one by a command
C1_Witness ==
    /\ ~hist.v0 /\ hist.onlyOk /\ hist.queryOk /\ hist.sequential /\ Quiet
    /\ hist.n = 3
    /\ window.visible
    /\ ToggleTrigger(lastEvent.kind)
    /\ \E t \in Tasks : ToggleDone(t)

\* C2: a load invoked after save_conversation(a, x) returned Ok returns a
\* mapping holding a -> x.
C2_SaveThenLoad ==
    \A t \in Tasks :
        Loaded(t) => /\ task[t].result = "Ok"
                     /\ task[t].expect.saved \subseteq task[t].value

\* C3: after two saves under one id, a load maps the id to the latest content
\* and holds exactly one record for it.
C3_Overwrite ==
    \A t \in Tasks : \A p \in task[t].expect.saved :
        (Loaded(t) /\ p[1] \in task[t].expect.overwritten \ task[t].expect.racy)
            => /\ p \in task[t].value
               /\ Cardinality({q \in task[t].value : q[1] = p[1]}) = 1

\* C4: two saves under distinct ids in flight together both return Ok, and a
\* load invoked after both returned holds both records.
C4_ConcurrentSaves ==
    /\ \A t \in Tasks :
          (task[t].cmd = "save_conversation" /\ task[t].pc = "done")
              => task[t].result = "Ok"
    /\ \A t \in Tasks :
          (Loaded(t) /\ task[t].expect.concurrent # {}
                     /\ task[t].expect.concurrent \subseteq MapKeys(task[t].expect.saved))
              => \A p \in task[t].expect.saved :
                    p[1] \in task[t].expect.concurrent => p \in task[t].value

LastRefused(calls) ==
    /\ calls # <<>>
    /\ calls[Len(calls)][1] \in ActionNames
    /\ ~calls[Len(calls)][2]

Requested(calls, name) == \E i \in 1..Len(calls) : calls[i][1] = name

WindowEvent(e) == e.kind \in {"LeftClick", "MenuItemClick", "Shortcut"}

MenuClick(e, id) == e.kind = "MenuItemClick" /\ e.id = id

\* the process lives, or it was a handler of the main thread that ended it
EndedByMainThread == mainPc = "run" \/ lastEvent.exit # "none"

\* C5: a toggle_window_visibility whose hide, show or set_focus the platform
\* refused has returned Err to its caller, and it is not what ended the process.
C5_DispatcherErr ==
    \A t \in Tasks :
        (task[t].cmd = "toggle_window_visibility" /\ LastRefused(task[t].calls))
            => /\ task[t].pc = "done"
               /\ task[t].result = "Err"
               /\ EndedByMainThread

\* a command returned Err, and a tray click was handled after it
C5_Witness ==
    /\ \E t \in Tasks : ToggleDone(t) /\ task[t].result = "Err"
                                      /\ LastRefused(task[t].calls)
    /\ mainPc = "run"
    /\ lastEvent.kind = "LeftClick" /\ lastEvent.afterErr /\ lastEvent.exit = "none"

\* C6, as claimed: a tray click, menu item or shortcut whose show, hide or
\* set_focus the platform refused finishes, and the process goes on.
C6_NoCrash ==
    (WindowEvent(lastEvent) /\ ~CallsOk(lastEvent.calls, ActionNames))
        => (lastEvent.exit = "none" /\ mainPc = "run")

\* C7: once the menu item "quit" was clicked, the process has exited with
\* status 0 and the window and the store are as the click found them.
C7_Quit ==
    MenuClick(lastEvent, "quit")
        => /\ mainPc = "exited"
           /\ exitCode = 0
           /\ window = lastEvent.before
           /\ conversations = lastEvent.store

\* quit clicked on a visible window while a toggle was about to hide it
C7_Witness ==
    /\ MenuClick(lastEvent, "quit")
    /\ mainPc = "exited"
    /\ lastEvent.before.visible
    /\ \E t \in Tasks : InToggle(task[t]) /\ task[t].pc = "hide"

\* C8, as claimed: the menu item "show" leaves the window visible, requests
\* focus and raises no error, whether the window was visible or hidden.
C8_ShowIdempotent ==
    MenuClick(lastEvent, "show")
        => /\ lastEvent.after.visible
           /\ Requested(lastEvent.calls, "set_focus")
           /\ lastEvent.exit = "none"

\* what toggling, showing and hiding do when nothing is refused
WindowOpsWork ==
    /\ (lastEvent.kind = "LeftClick" /\ lastEvent.exit = "none"
            /\ CallsOk(lastEvent.calls, {"is_visible"}))
          => lastEvent.after.visible = ~lastEvent.before.visible
    /\ (MenuClick(lastEvent, "show") /\ lastEvent.exit = "none")
          => lastEvent.after.visible
    /\ (MenuClick(lastEvent, "hide") /\ lastEvent.exit = "none")
          => ~lastEvent.after.visible
    /\ \A t \in Tasks :
          (ToggleDone(t) /\ task[t].result = "Ok")
              => LET c == task[t].calls
                 IN  \/ /\ Len(c) = 2
                        /\ c[2] = <<"hide", TRUE>>
                     \/ /\ Len(c) = 3
                        /\ c[2] = <<"show", TRUE>>
                        /\ c[3] = <<"set_focus", TRUE>>

FailureLine == <<"Failed to register global shortcut: ", "e">>

\* C9: when the registration of the shortcut failed, setup went on to its next
\* step with the failure printed, the binding stays absent and the shortcut
\* never fires, and the command and the tray still toggle, show and hide.
C9_RegistrationFailure ==
    hist.register = "failed"
        => /\ ~shortcutRegistered
           /\ lastEvent.kind # "Shortcut"
           /\ (lastEvent.kind = "Setup" /\ lastEvent.id = "register")
                 => (mainPc = "set_title" /\ exitCode = -1 /\ stdout = FailureLine)
           /\ WindowOpsWork

\* registration failed; afterwards a command toggled and a tray click toggled
C9_Witness ==
    /\ hist.register = "failed"
    /\ mainPc = "run"
    /\ \E t \in Tasks : ToggleDone(t) /\ task[t].result = "Ok"
    /\ lastEvent.kind = "LeftClick" /\ lastEvent.exit = "none"
    /\ lastEvent.after.visible # lastEvent.before.visible

\* C10, as claimed: a command toggle overlapping a tray or shortcut toggle,
\* nothing refused, leaves the window as visible as it was before the two.
C10_MutualExclusion ==
    (/\ hist.n = 2 /\ ~hist.sequential
     /\ hist.onlyOk /\ hist.queryOk /\ Quiet
     /\ ToggleTrigger(lastEvent.kind)
     /\ \E t \in Tasks : ToggleDone(t))
        => window.visible = hist.v0

AllOk(calls) == \A i \in 1..Len(calls) : calls[i][2]

\* what a toggle makes of a window: visible -> hidden, hidden -> visible
Toggled(from, to, calls) ==
    /\ to.visible = ~from.visible
    /\ to.visible => Requested(calls, "set_focus")

\* C11, as claimed: with every platform call succeeding, a tray left-click, a
\* shortcut activation and a toggle_window_visibility call each take the window
\* from visible to hidden and from hidden to visible with focus requested.
C11_Interchangeable ==
    /\ (ToggleTrigger(lastEvent.kind) /\ AllOk(lastEvent.calls))
          => Toggled(lastEvent.before, lastEvent.after, lastEvent.calls)
    /\ \A t \in Tasks :
          (ToggleDone(t) /\ AllOk(task[t].calls))
              => Toggled(task[t].from, task[t].to, task[t].calls)

\* the toggle itself changed the window's visibility
Flipped(calls) ==
    \E i \in 1..Len(calls) : calls[i][1] \in {"show", "hide"} /\ calls[i][2]

\* C12, as claimed: a toggle_window_visibility that returned Err has not
\* flipped the window: none of its show or hide calls took effect.
C12_ErrKeepsVisibility ==
    \A t \in Tasks :
        (ToggleDone(t) /\ task[t].result = "Err") => ~Flipped(task[t].calls)

\* C13, as claimed: what a load returns is the store's full contents at one
\* instant between its invocation and its response, the saves taken in the
\* order in which they returned.
C13_ConsistentSnapshot ==
    \A t \in Tasks : Loaded(t) => task[t].value \in task[t].expect.snaps

\* a tray event that is neither a left-click nor a click on show, hide or quit
Ignorable(e) ==
    \/ e.kind \in OtherTrayEvents
    \/ e.kind = "MenuItemClick" /\ e.id \notin {"show", "hide", "quit"}

\* C14: a tray event that is neither a left-click nor a click on "show", "hide"
\* or "quit" makes no platform call, leaves the window and the store as they
\* were, raises no error and leaves the process running.
C14_OtherEventsIgnored ==
    Ignorable(lastEvent)
        => /\ lastEvent.calls = <<>>
           /\ lastEvent.after = lastEvent.before
           /\ lastEvent.exit = "none"
           /\ conversations = lastEvent.store
           /\ mainPc = "run"
           /\ exitCode = -1

\* a right-click on the tray of a visible, focused window, after a save
C14_Witness ==
    /\ lastEvent.kind = "RightClick"
    /\ lastEvent.before.visible /\ lastEvent.before.focused
    /\ window = lastEvent.before
    /\ hist.saved # {}
    /\ mainPc = "run"

\* C15: a click on the menu item "hide" whose platform hide succeeded leaves
\* the window hidden, whether it was visible or not, requests no focus, ends
\* without error, and a second "hide" on the window it left changes nothing.
C15_HideIdempotent ==
    (MenuClick(lastEvent, "hide") /\ AllOk(lastEvent.calls))
        => /\ ~lastEvent.after.visible
           /\ ~lastEvent.after.focused
           /\ lastEvent.calls = <<<<"hide", TRUE>>>>
           /\ lastEvent.exit = "none"
           /\ HideItem(hasMainWindow, lastEvent.after, TRUE).w = lastEvent.after

\* "hide" clicked on a window that an earlier operation had already hidden
C15_Witness ==
    /\ MenuClick(lastEvent, "hide") /\ AllOk(lastEvent.calls)
    /\ hist.v0
    /\ ~lastEvent.before.visible
    /\ ~window.visible
    /\ mainPc = "run"

\* C16: without a main window the process never gets past the first step of
\* setup: it ends there with an error status, and no tray event, shortcut or
\* command is ever handled.
C16_NoWindowIsFatal ==
    ~hasMainWindow
        => /\ mainPc \in {"get_window", "panicked"}
           /\ mainPc = "panicked" => exitCode \notin {-1, 0}
           /\ lastEvent.kind \in {"none", "Setup"}
           /\ lastEvent.kind = "Setup" => lastEvent.id = "get_window"
           /\ nOps = 0
           /\ \A t \in Tasks : task[t] = IdleTask
           /\ ~shortcutRegistered

\* the process has ended in setup for want of the main window
C16_Witness ==
    /\ ~hasMainWindow
    /\ mainPc = "panicked"
    /\ exitCode = 101
    /\ lastEvent.calls = <<<<"get_window", FALSE>>>>

CallNames(calls) == [i \in 1..Len(calls) |-> calls[i][1]]

\* the calls of a toggle whose query failed: show next, set_focus once show
\* succeeded, and never hide
ShowsAfterFailedQuery(calls, returned) ==
    (calls # <<>> /\ calls[1] = <<"is_visible", FALSE>>)
        => /\ \/ CallNames(calls) = <<"is_visible">> /\ ~returned
              \/ CallNames(calls) = <<"is_visible", "show">>
                    /\ (returned => ~calls[2][2])
              \/ CallNames(calls) = <<"is_visible", "show", "set_focus">> /\ calls[2][2]
           /\ ~Requested(calls, "hide")

\* a toggle calls hide only on a window the platform reported visible
HidesOnlyVisible(calls, from) ==
    Requested(calls, "hide") => (calls[1] = <<"is_visible", TRUE>> /\ from.visible)

\* C17: in the command, the tray left-click and the shortcut alike, a toggle
\* whose is_visible failed goes on to show and then set_focus, and hide is
\* called only after is_visible reported the window visible.
C17_FailedQueryIsHidden ==
    /\ ToggleTrigger(lastEvent.kind)
          => /\ ShowsAfterFailedQuery(lastEvent.calls, TRUE)
             /\ HidesOnlyVisible(lastEvent.calls, lastEvent.before)
    /\ \A t \in Tasks :
          task[t].cmd = "toggle_window_visibility"
              => /\ ShowsAfterFailedQuery(task[t].calls, task[t].pc = "done")
                 /\ HidesOnlyVisible(task[t].calls, task[t].from)
                 /\ (task[t].calls = <<<<"is_visible", FALSE>>>> => task[t].pc = "show")

\* the query failed on a visible window, in a command and in a shortcut toggle:
\* both showed and focused it
C17_Witness ==
    /\ lastEvent.kind = "Shortcut"
    /\ lastEvent.before.visible
    /\ lastEvent.calls = <<<<"is_visible", FALSE>>, <<"show", TRUE>>, <<"set_focus", TRUE>>>>
    /\ \E t \in Tasks :
          /\ ToggleDone(t)
          /\ task[t].from.visible
          /\ task[t].calls = <<<<"is_visible", FALSE>>, <<"show", TRUE>>, <<"set_focus", TRUE>>>>

\* task t takes a step of the command it is running
StepOf(t) == task[t].pc \notin {"idle", "done"} /\ task'[t] # task[t]

\* the main thread handles a tray event or the shortcut
EventStep == nOps' # nOps /\ task' = task

\* C18: no step of greet, get_platform_info, save_conversation or
\* load_conversations changes the window; no step of toggle_window_visibility
\* and no tray or shortcut handler changes the store; a step of greet or
\* get_platform_info changes nothing but its own task.
C18_Frame ==
    [][/\ \A t \in Tasks :
             StepOf(t) =>
                /\ task[t].cmd # "toggle_window_visibility" => window' = window
                /\ task[t].cmd = "toggle_window_visibility"
                      => conversations' = conversations
                /\ task[t].cmd \in {"greet", "get_platform_info"}
                      => /\ UNCHANGED <<mainPc, exitCode, hasMainWindow,
                                        shortcutRegistered, window, conversations,
                                        stdout, lastEvent>>
                         /\ \A u \in Tasks \ {t} : task'[u] = task[u]
       /\ EventStep => conversations' = conversations]_vars

\* a greeting returned beside a toggle in flight, on a shown window, after a save
C18_Witness ==
    /\ \E t \in Tasks : task[t].cmd = "greet" /\ task[t].pc = "done"
    /\ \E t \in Tasks : InToggle(task[t]) /\ task[t].pc = "set_focus"
    /\ window.visible
    /\ hist.saved # {}

====
